---- MODULE Spec2Model ----
(***************************************************************************)
(* A model of get_papers_list.py: search_pubmed, fetch_details (the fetch  *)
(* loop and the per-record author loop), save_to_csv, the affiliation      *)
(* classifier functions and main.  Text is modelled as sequences of        *)
(* one-character strings so that lower(), split(), strip(), join() and the *)
(* email regular expression are computed, not assumed.                     *)
(***************************************************************************)
EXTENDS Integers, Sequences, FiniteSets, TLC

\* ------------------------------------------------------------------ bounds
\* Longest identifier list the search returns in the model.
MaxIds == 2
\* Most authors of one record.
MaxAuthors == 2
\* Most fragments concatenated into one classifier input.
MaxFrags == 3

\* -------------------------------------------------------------- characters
UpperSeq == <<"A","B","C","D","E","F","G","H","I","J","K","L","M",
              "N","O","P","Q","R","S","T","U","V","W","X","Y","Z">>
LowerSeq == <<"a","b","c","d","e","f","g","h","i","j","k","l","m",
              "n","o","p","q","r","s","t","u","v","w","x","y","z">>
Letters == {UpperSeq[i] : i \in 1..26} \cup {LowerSeq[i] : i \in 1..26}
Digits == {"0","1","2","3","4","5","6","7","8","9"}
\* The three character classes of the pattern in extract_email.
LocalChars == Letters \cup Digits \cup {".", "_", "%", "+", "-"}
DomainChars == Letters \cup Digits \cup {".", "-"}
TldChars == Letters
\* What str.strip() removes.
Whitespace == {" ", "\t", "\n"}

\* str.lower() on one character.
LowerChar(c) ==
    IF \E i \in 1..26 : UpperSeq[i] = c
    THEN LowerSeq[CHOOSE i \in 1..26 : UpperSeq[i] = c]
    ELSE c

\* str.lower()
Lower(s) == [i \in 1..Len(s) |-> LowerChar(s[i])]

\* The operator "w in s" on strings.
Contains(s, w) ==
    \E i \in 1..(Len(s) - Len(w) + 1) : SubSeq(s, i, i + Len(w) - 1) = w

\* str.strip()
RECURSIVE LStrip(_)
LStrip(s) == IF s # <<>> /\ Head(s) \in Whitespace THEN LStrip(Tail(s)) ELSE s
RECURSIVE RStrip(_)
RStrip(s) ==
    IF s # <<>> /\ s[Len(s)] \in Whitespace
    THEN RStrip(SubSeq(s, 1, Len(s) - 1))
    ELSE s
Strip(s) == RStrip(LStrip(s))

\* sep.join(parts)
RECURSIVE Join(_, _)
Join(sep, parts) ==
    IF parts = <<>> THEN <<>>
    ELSE IF Len(parts) = 1 THEN parts[1]
    ELSE parts[1] \o sep \o Join(sep, Tail(parts))

\* The expression "x or d" on strings: d when x is the empty string.
OrDefault(x, d) == IF x = <<>> THEN d ELSE x

\* ---------------------------------------------------------------- literals
NotFound == <<"N","o","t"," ","f","o","u","n","d">>
NoneStr == <<"N","o","n","e">>
UnknownYear == <<"U","n","k","n","o","w","n"," ","Y","e","a","r">>
NoTitle == <<"N","o"," ","T","i","t","l","e">>
CommaSpace == <<",", " ">>

\* -------------------------------------------------------------- classifier
\* The keyword list with "centre" forgotten.
academic_keywords_no_centre ==
    { <<"u","n","i","v","e","r","s","i","t","y">>,
      <<"c","o","l","l","e","g","e">>,
      <<"i","n","s","t","i","t","u","t","e">>,
      <<"s","c","h","o","o","l">>,
      <<"h","o","s","p","i","t","a","l">>,
      <<"c","l","i","n","i","c">>,
      <<"c","e","n","t","e","r">> }

academic_keywords ==
    { <<"u","n","i","v","e","r","s","i","t","y">>,
      <<"c","o","l","l","e","g","e">>,
      <<"i","n","s","t","i","t","u","t","e">>,
      <<"s","c","h","o","o","l">>,
      <<"h","o","s","p","i","t","a","l">>,
      <<"c","l","i","n","i","c">>,
      <<"c","e","n","t","e","r">>,
      <<"c","e","n","t","r","e">> }

is_company_affiliation(aff) ==
    LET aff_lower == Lower(aff)
    IN  ~ \E word \in academic_keywords : Contains(aff_lower, word)

\* aff.split(",")[0]: the text before the first comma, or all of it.
extract_company_name(aff) ==
    IF \E i \in 1..Len(aff) : aff[i] = ","
    THEN LET c == CHOOSE i \in 1..Len(aff) :
                      aff[i] = "," /\ \A j \in 1..(i - 1) : aff[j] # ","
         IN  SubSeq(aff, 1, c - 1)
    ELSE aff

\* The end of the longest run of characters of class cls that starts at
\* position i (i - 1 when s[i] is not in cls): a greedy cls* from i.
RECURSIVE RunEnd(_, _, _)
RunEnd(s, i, cls) ==
    IF i <= Len(s) /\ s[i] \in cls THEN RunEnd(s, i + 1, cls) ELSE i - 1

\* re.match of the pattern at position i: the end of the match, 0 if none.
\* [..]+ is greedy: the local part is the whole run up to "@"; the domain
\* takes its whole run and backtracks to the last "." that two letters
\* follow; the top-level part then takes its whole run of letters.
MatchEndAt(s, i) ==
    LET at == RunEnd(s, i, LocalChars) + 1
    IN  IF at = i \/ at > Len(s) \/ s[at] # "@" THEN 0
        ELSE LET dEnd == RunEnd(s, at + 1, DomainChars)
                 dots == { q \in (at + 2)..dEnd :
                             /\ s[q] = "."
                             /\ RunEnd(s, q + 1, TldChars) >= q + 2 }
             IN  IF dots = {} THEN 0
                 ELSE LET q == CHOOSE x \in dots : \A y \in dots : y <= x
                      IN  RunEnd(s, q + 1, TldChars)

\* re.search: the match at the leftmost position that has one.
extract_email(aff) ==
    LET starts == { i \in 1..Len(aff) : MatchEndAt(aff, i) # 0 }
    IN  IF starts = {} THEN NotFound
        ELSE LET i == CHOOSE x \in starts : \A y \in starts : x <= y
             IN  SubSeq(aff, i, MatchEndAt(aff, i))

\* ------------------------------------------------------- the remote's data
\* An XML element that findtext looks up: absent, or present with its text
\* (an element without text has the text "").
Absent == [present |-> FALSE, text |-> <<>>]
Elem(t) == [present |-> TRUE, text |-> t]

\* Element.findtext(path, default)
findtext(elem, default) == IF elem.present THEN elem.text ELSE default

Author(fname, lname, aff) ==
    [ForeName |-> fname, LastName |-> lname, Affiliation |-> aff]

\* The authors a record may list: a company with an email, an academic
\* affiliation with "@" but no address, an academic one with an address, a
\* nameless author of a company whose first segment is empty, an author
\* without affiliation, and a second company with another address.
AuthorPool ==
    { Author(Elem(<<"J">>), Elem(<<"D","o","e">>),
             Elem(<<"A","c","m","e",","," ","j","@","a","c",".","m","e">>)),
      Author(Absent, Elem(<<"R","o","e">>),
             Elem(<<"C","i","t","y"," ","C","l","i","n","i","c"," ","@"," ","x">>)),
      Author(Elem(<<"A","l">>), Absent,
             Elem(<<"M","I","T"," ","S","c","h","o","o","l",","," ",
                    "a","l","@","m","i","t",".","e","d","u">>)),
      Author(Absent, Absent, Elem(<<",","B","e","t","a">>)),
      Author(Elem(<<"B","o">>), Elem(<<"L","i">>), Absent),
      Author(Elem(<<"C","y">>), Elem(<<"N","g"," ">>),
             Elem(<<"B","e","t","a",","," ","c","@","b",".","i","o">>)) }

\* All sequences over S of length at most n.
SeqsUpTo(S, n) == UNION { [1..k -> S] : k \in 0..n }

AuthorLists == SeqsUpTo(AuthorPool, MaxAuthors)

\* What PubDate/Year and PubDate/MedlineDate may be.
YearElems == { Absent, Elem(<<>>), Elem(<<"2","0","2","1">>) }
MedlineElems == { Absent, Elem(<<>>), Elem(<<"2","0","2","1"," ","J","a","n">>) }
TitleT == Elem(<<"T">>)

Article(title, year, medline, authors) ==
    [found |-> TRUE, title |-> title, year |-> year, medline |-> medline,
     authors |-> authors]

\* The response that holds no PubmedArticle.
NoArticle ==
    [found |-> FALSE, title |-> Absent, year |-> Absent, medline |-> Absent,
     authors |-> <<>>]

OneAuthor == << Author(Elem(<<"B","o">>), Elem(<<"L","i">>), Absent) >>

\* The records of the first identifier: every publication date with one
\* author list, every author list with one publication date, and a record
\* without a title.
RecordPool ==
    { Article(TitleT, y, m, OneAuthor) : y \in YearElems, m \in MedlineElems }
    \cup { Article(TitleT, Elem(<<"2","0","2","1">>), Absent, al) :
             al \in AuthorLists }
    \cup { Article(Absent, Elem(<<"2","0","2","1">>), Absent, <<>>) }

\* The records of the second identifier: one author of a company and no
\* date; two companies after an academic author, and no title.
SecondPool ==
    { Article(TitleT, Absent, Absent,
              << Author(Elem(<<"C","y">>), Elem(<<"N","g"," ">>),
                        Elem(<<"B","e","t","a",","," ","c","@","b",".","i","o">>)) >>),
      Article(Absent, Elem(<<"2","0","2","1">>),
              Elem(<<"2","0","2","1"," ","J","a","n">>),
              << Author(Elem(<<"A","l">>), Absent,
                        Elem(<<"M","I","T"," ","S","c","h","o","o","l",","," ",
                               "a","l","@","m","i","t",".","e","d","u">>)),
                 Author(Elem(<<"J">>), Elem(<<"D","o","e">>),
                        Elem(<<"A","c","m","e",","," ","j","@","a","c",".","m","e">>)),
                 Author(Elem(<<"C","y">>), Elem(<<"N","g"," ">>),
                        Elem(<<"B","e","t","a",","," ","c","@","b",".","i","o">>)) >>) }

Ids == {"p1", "p2"}
IdLists == SeqsUpTo(Ids, MaxIds)
Range(f) == { f[i] : i \in DOMAIN f }

\* The output file: absent, or its header line and its rows.
NoFile == [exists |-> FALSE, header |-> <<>>, rows |-> <<>>]
EmptyFile == [exists |-> TRUE, header |-> <<>>, rows |-> <<>>]
OldFile == [exists |-> TRUE, header |-> <<"old">>, rows |-> <<>>]

\* papers[0].keys(): the keys of the dict built in fetch_details.
FieldNames ==
    << "PubmedID", "Title", "Publication Date", "Non-academic Author(s)",
       "Company Affiliation(s)", "Corresponding Author Email" >>

\* The classifier inputs: concatenations of these fragments.
Frags ==
    { <<"U","n","i">>, <<"v","e","r","s","i","t","y">>,
      <<"U","N","I","V","E","R","S","I","T","Y">>,
      <<"c","O","l","l","e","g","e">>, <<"C","e","n","t","r","e">>,
      <<"c","e","n","t">>, <<"e","r">>, <<"r","e">>,
      <<"C","L","I","N","I","C">>, <<" ","S","c","h","o","o","l">>,
      <<"h","o","s","p","i","t","a","l">>, <<"I","n","s","t","i","t","u","t">>,
      <<"e">>, <<"A","c","m","e"," ","C","o","r","p">>, <<","," ">>,
      <<"x","@","y",".","c","o">>, <<"@">> }

RECURSIVE Concat(_)
Concat(ss) == IF ss = <<>> THEN <<>> ELSE Head(ss) \o Concat(Tail(ss))

AffInputs == { Concat(fs) : fs \in SeqsUpTo(Frags, MaxFrags) }

\* ------------------------------------------------------------------- state
VARIABLES
    pc,                     \* where main is
    idlist,                 \* the remote: the search's "idlist"
    remote,                 \* the remote: the record of each identifier
    file0,                  \* the output file before the run
    file,                   \* the output file
    ids,                    \* main: ids
    idx,                    \* fetch_details: position of pmid in pubmed_ids
    papers,                 \* fetch_details: papers
    title, pub_date,        \* fetch_details: the record's locals
    authors, ai,            \* the author list and the author loop's position
    non_academic_authors, company_affiliations, email,
    set_order,              \* the process's iteration order of each set built
    events,                 \* history: the requests and file operations so far
    failure,                \* the error that ended the run
    run, prev_papers,       \* a second run of the program and the first's papers
    arg, ret                \* a direct call of a classifier function

vars ==
    << pc, idlist, remote, file0, file, ids, idx, papers, title, pub_date,
       authors, ai, non_academic_authors, company_affiliations, email,
       set_order, events, failure, run, prev_papers, arg, ret >>

env == << idlist, remote, file0 >>
record_locals ==
    << title, pub_date, authors, ai, non_academic_authors,
       company_affiliations, email >>
call_vars == << arg, ret >>
run_vars == << run, prev_papers >>

NoOrders == [l \in {} |-> <<>>]
NoCall == [fn |-> "none", bool |-> FALSE, text |-> <<>>]

Ev(kind, id) == [ev |-> kind, id |-> id]

\* The state of a process that has just started.
Fresh ==
    /\ pc = "main"
    /\ ids = <<>> /\ idx = 1 /\ papers = <<>>
    /\ title = <<>> /\ pub_date = <<>> /\ authors = <<>> /\ ai = 1
    /\ non_academic_authors = <<>> /\ company_affiliations = <<>>
    /\ email = <<>>
    /\ set_order = NoOrders
    /\ events = <<>>
    /\ failure = "none"

\* The records the remote may hold for identifier i.
RecordsOf(i, lst) ==
    IF i \notin Range(lst) THEN {NoArticle}
    ELSE IF i = "p1" THEN RecordPool \cup {NoArticle}
    ELSE SecondPool \cup {NoArticle}

Init ==
    /\ idlist \in IdLists
    \* what the remote holds for an identifier the search never returns
    \* is never read: it is left as "no record"
    /\ \E r1 \in RecordsOf("p1", idlist), r2 \in RecordsOf("p2", idlist) :
         remote = [i \in Ids |-> IF i = "p1" THEN r1 ELSE r2]
    /\ file0 \in {NoFile, OldFile}
    /\ file = file0
    /\ Fresh
    /\ run = 1 /\ prev_papers = <<>>
    /\ arg = <<>> /\ ret = NoCall

\* An uncaught exception: the process ends and its locals are gone.
Raise(kind) ==
    /\ pc' = "failed"
    /\ failure' = kind
    /\ ids' = <<>> /\ idx' = 1 /\ papers' = <<>>
    /\ title' = <<>> /\ pub_date' = <<>> /\ authors' = <<>> /\ ai' = 1
    /\ non_academic_authors' = <<>> /\ company_affiliations' = <<>>
    /\ email' = <<>>

\* ------------------------------------------------------------ search_pubmed
\* requests.get(search_url, params)
SearchRequest ==
    /\ pc = "main"
    /\ pc' = "search_wait"
    /\ events' = Append(events, Ev("search_req", ""))
    /\ UNCHANGED << env, file, ids, idx, papers, record_locals, set_order,
                    failure, run_vars, call_vars >>

\* The response: raise_for_status(), response.json(), the idlist.
SearchReturn ==
    /\ pc = "search_wait"
    /\ \E outcome \in {"ok", "transport", "parse"} :
         IF outcome = "ok"
         THEN /\ ids' = idlist
              /\ pc' = "loop"
              /\ events' = Append(events, Ev("search_ret", ""))
              /\ UNCHANGED << idx, papers, record_locals, failure >>
         ELSE /\ Raise(outcome)
              /\ UNCHANGED events
    /\ UNCHANGED << env, file, set_order, run_vars, call_vars >>

\* ------------------------------------------------------------ fetch_details
\* The list walked from its end.
CurrentPmid_reversed(pubmed_ids, i) == pubmed_ids[Len(pubmed_ids) - i + 1]
\* for pmid in tqdm(pubmed_ids)
CurrentPmid(pubmed_ids, i) == pubmed_ids[i]

\* The test of line 41 left out.
Resolves_always(article) == TRUE
\* "article is None" is false
Resolves(article) == article.found

\* The Publication Date of lines 45-47.
PubDateOf(article) ==
    LET year == findtext(article.year, UnknownYear)
    IN  IF year = <<>> THEN findtext(article.medline, <<>>) ELSE year

\* f"{fname} {lname}".strip()
FullName(author) ==
    Strip(findtext(author.ForeName, <<>>) \o <<" ">>
          \o findtext(author.LastName, <<>>))

\* The test of line 60 left out.
HasAff_always(aff) == TRUE
\* if aff:
HasAff(aff) == aff # <<>>

\* The guard without its second half: the last address wins.
EmailGuard_last_wins(aff, cur) == Contains(aff, <<"@">>)
\* if "@" in aff and email == "Not found":
EmailGuard(aff, cur) == Contains(aff, <<"@">>) /\ cur = NotFound

\* requests.get(fetch_url, params) for the next identifier.
FetchRequest ==
    /\ pc = "loop"
    /\ idx <= Len(ids)
    /\ pc' = "fetch_wait"
    /\ events' = Append(events, Ev("fetch_req", CurrentPmid(ids, idx)))
    /\ UNCHANGED << env, file, ids, idx, papers, record_locals, set_order,
                    failure, run_vars, call_vars >>

\* The response: raise_for_status(), the parse, the record or "continue",
\* and the record's locals before the author loop.
FetchReturn ==
    /\ pc = "fetch_wait"
    /\ \E outcome \in {"ok", "transport", "parse"} :
         IF outcome = "ok"
         THEN LET pmid == CurrentPmid(ids, idx)
                  article == remote[pmid]
              IN  /\ events' = Append(events, Ev("fetch_ret", pmid))
                  /\ IF ~ Resolves(article)
                     THEN /\ idx' = idx + 1
                          /\ pc' = "loop"
                          /\ UNCHANGED record_locals
                     ELSE /\ title' = findtext(article.title, NoTitle)
                          /\ pub_date' = PubDateOf(article)
                          /\ authors' = article.authors
                          /\ non_academic_authors' = <<>>
                          /\ company_affiliations' = <<>>
                          /\ email' = NotFound
                          /\ ai' = 1
                          /\ pc' = "authors"
                          /\ UNCHANGED idx
                  /\ UNCHANGED << ids, papers, failure >>
         ELSE /\ Raise(outcome)
              /\ UNCHANGED events
    /\ UNCHANGED << env, file, set_order, run_vars, call_vars >>

\* One pass of "for author in authors".
AuthorStep ==
    /\ pc = "authors"
    /\ ai <= Len(authors)
    /\ LET author == authors[ai]
           aff == findtext(author.Affiliation, <<>>)
           fullname == FullName(author)
           company == HasAff(aff) /\ is_company_affiliation(aff)
       IN  /\ non_academic_authors' =
                IF company THEN Append(non_academic_authors, fullname)
                ELSE non_academic_authors
           /\ company_affiliations' =
                IF company
                THEN Append(company_affiliations, extract_company_name(aff))
                ELSE company_affiliations
           /\ email' =
                IF HasAff(aff) /\ EmailGuard(aff, email)
                THEN extract_email(aff)
                ELSE email
    /\ ai' = ai + 1
    /\ UNCHANGED << pc, env, file, ids, idx, papers, title, pub_date, authors,
                    set_order, events, failure, run_vars, call_vars >>

\* The orders in which set(lst) may be iterated: the order of the hash
\* table's slots.  A string's slot follows from its hash, which differs from
\* process to process, except that the empty string's hash is always 0: when
\* it is the first one inserted it has the first slot.
SetOrders(lst) ==
    LET S == Range(lst)
    IN  { o \in [1..Cardinality(S) -> S] :
            /\ \A i, j \in 1..Cardinality(S) : i # j => o[i] # o[j]
            /\ (lst # <<>> /\ lst[1] = <<>>) => o[1] = <<>> }

\* The dict of lines 67-74 and papers.append(paper).  The order in which
\* set(company_affiliations) is iterated depends on the process's string
\* hashes: it is any order, and the same one whenever this process builds
\* the set from the same list.
AssemblePaper ==
    /\ pc = "authors"
    /\ ai > Len(authors)
    /\ \E order \in SetOrders(company_affiliations) :
         /\ company_affiliations \in DOMAIN set_order
              => order = set_order[company_affiliations]
         /\ set_order' = (company_affiliations :> order) @@ set_order
         /\ papers' = Append(papers,
              [ PubmedID |-> CurrentPmid(ids, idx),
                Title |-> title,
                PublicationDate |-> pub_date,
                NonAcademicAuthors |->
                    OrDefault(Join(CommaSpace, non_academic_authors), NoneStr),
                CompanyAffiliations |->
                    OrDefault(Join(CommaSpace, order), NoneStr),
                CorrespondingAuthorEmail |-> email ])
    /\ idx' = idx + 1
    /\ pc' = "loop"
    /\ UNCHANGED << env, file, ids, record_locals, events, failure, run_vars,
                    call_vars >>

\* return papers, and main's call of save_to_csv.
ReturnPapers ==
    /\ pc = "loop"
    /\ idx > Len(ids)
    /\ pc' = "save"
    /\ UNCHANGED << env, file, ids, idx, papers, record_locals, set_order,
                    events, failure, run_vars, call_vars >>

\* -------------------------------------------------------------- save_to_csv
\* open(filename, mode='w'): the file is created or truncated.
SaveOpen ==
    /\ pc = "save"
    /\ \E outcome \in {"ok", "oserror"} :
         IF outcome = "ok"
         THEN /\ file' = EmptyFile
              /\ pc' = "write"
              /\ events' = Append(events, Ev("open", ""))
              /\ UNCHANGED << ids, idx, papers, record_locals, failure >>
         ELSE /\ Raise(outcome)
              /\ UNCHANGED << file, events >>
    /\ UNCHANGED << env, set_order, run_vars, call_vars >>

\* DictWriter(fieldnames=papers[0].keys()), writeheader(), writerows(papers),
\* and the end of the with block.
SaveWrite ==
    /\ pc = "write"
    /\ IF papers = <<>>
       THEN /\ Raise("index")
            /\ UNCHANGED << file, events >>
       ELSE /\ file' = [exists |-> TRUE, header |-> FieldNames, rows |-> papers]
            /\ events' = Append(events, Ev("write", ""))
            /\ pc' = "done"
            /\ UNCHANGED << ids, idx, papers, record_locals, failure >>
    /\ UNCHANGED << env, set_order, run_vars, call_vars >>

Next ==
    \/ SearchRequest
    \/ SearchReturn
    \/ FetchRequest
    \/ FetchReturn
    \/ AuthorStep
    \/ AssemblePaper
    \/ ReturnPapers
    \/ SaveOpen
    \/ SaveWrite

Spec == Init /\ [][Next]_vars

\* ------------------------------------------------------------ a second run
\* The program is started again after a run that ended well: a new process
\* (new locals, new string hashes) against the same remote data; the file
\* the first run wrote is the file this run finds.
Rerun ==
    /\ pc = "done"
    /\ run = 1
    /\ run' = 2
    /\ prev_papers' = papers
    /\ file0' = file
    /\ pc' = "main"
    /\ ids' = <<>> /\ idx' = 1 /\ papers' = <<>>
    /\ title' = <<>> /\ pub_date' = <<>> /\ authors' = <<>> /\ ai' = 1
    /\ non_academic_authors' = <<>> /\ company_affiliations' = <<>>
    /\ email' = <<>>
    /\ set_order' = NoOrders
    /\ events' = <<>>
    /\ UNCHANGED << idlist, remote, file, failure, call_vars >>

NextTwice == Next \/ Rerun

SpecTwice == Init /\ [][NextTwice]_vars

\* ------------------------------------------- the classifier called directly
InitClassifier ==
    /\ arg \in AffInputs
    /\ ret = NoCall
    /\ pc = "call"
    /\ idlist = <<>>
    /\ remote = [i \in Ids |-> NoArticle]
    /\ file0 = NoFile /\ file = NoFile
    /\ ids = <<>> /\ idx = 1 /\ papers = <<>>
    /\ title = <<>> /\ pub_date = <<>> /\ authors = <<>> /\ ai = 1
    /\ non_academic_authors = <<>> /\ company_affiliations = <<>>
    /\ email = <<>>
    /\ set_order = NoOrders
    /\ events = <<>>
    /\ failure = "none"
    /\ run = 1 /\ prev_papers = <<>>

Returned(r) ==
    /\ pc = "call"
    /\ pc' = "returned"
    /\ ret' = r
    /\ UNCHANGED << env, file, ids, idx, papers, record_locals, set_order,
                    events, failure, run_vars, arg >>

CallIsCompanyAffiliation ==
    Returned([fn |-> "is_company_affiliation",
              bool |-> is_company_affiliation(arg), text |-> <<>>])

CallExtractCompanyName ==
    Returned([fn |-> "extract_company_name", bool |-> FALSE,
              text |-> extract_company_name(arg)])

CallExtractEmail ==
    Returned([fn |-> "extract_email", bool |-> FALSE,
              text |-> extract_email(arg)])

NextClassifier ==
    \/ CallIsCompanyAffiliation
    \/ CallExtractCompanyName
    \/ CallExtractEmail

SpecClassifier == InitClassifier /\ [][NextClassifier]_vars

\* ================================================================== claims
AffOf(author) == findtext(author.Affiliation, <<>>)
RecordOf(paper) == remote[paper.PubmedID]

\* s[i..j] is a one-or-more run of characters of cls.
IsRun(s, i, j, cls) == i <= j /\ \A k \in i..j : s[k] \in cls

\* The text contains a substring matching the email pattern: an "@" with a
\* local character before it and, after it, one or more domain characters,
\* a "." and two letters (every match holds such a substring, and such a
\* substring is a match).
HasEmail(s) ==
    \E a \in 2..Len(s) :
        /\ s[a] = "@"
        /\ s[a - 1] \in LocalChars
        /\ \E d \in (a + 2)..(Len(s) - 2) :
             /\ s[d] = "."
             /\ s[d + 1] \in TldChars
             /\ s[d + 2] \in TldChars
             /\ IsRun(s, a + 1, d - 1, DomainChars)

\* The email of the first author, in order, whose non-empty affiliation
\* contains an address; "Not found" if there is none.
FirstEmail(as) ==
    LET hits == { k \in 1..Len(as) : AffOf(as[k]) # <<>> /\ HasEmail(AffOf(as[k])) }
    IN  IF hits = {} THEN NotFound
        ELSE extract_email(AffOf(as[CHOOSE k \in hits : \A m \in hits : k <= m]))

\* The fallback of the data model: the year, else the raw MedlineDate, else
\* the sentinel.
DateFallback(r) ==
    IF r.year.present /\ r.year.text # <<>> THEN r.year.text
    ELSE IF r.medline.present /\ r.medline.text # <<>> THEN r.medline.text
    ELSE UnknownYear

\* C1: every paper's Publication Date is the Year text when the record has
\* a year, else the MedlineDate text when it has one, else "Unknown Year".
C1_PublicationDateFallback ==
    \A k \in 1..Len(papers) :
        papers[k].PublicationDate = DateFallback(RecordOf(papers[k]))

\* C2: at every point of the author loop the email is that of the first
\* visited author whose affiliation contains an address (so a later author
\* never changes it), and every paper's Corresponding Author Email is that
\* of the first such author of its record, "Not found" if there is none.
C2_FirstEmailWins ==
    /\ pc = "authors" => email = FirstEmail(SubSeq(authors, 1, ai - 1))
    /\ \A k \in 1..Len(papers) :
         papers[k].CorrespondingAuthorEmail = FirstEmail(RecordOf(papers[k]).authors)

\* A record of two authors with different addresses, the first of them
\* classified academic, has been assembled with the first one's address.
C2_Witness ==
    \E k \in 1..Len(papers) :
        LET as == RecordOf(papers[k]).authors
        IN  /\ Len(as) = 2
            /\ HasEmail(AffOf(as[1])) /\ HasEmail(AffOf(as[2]))
            /\ extract_email(AffOf(as[1])) # extract_email(AffOf(as[2]))
            /\ ~ is_company_affiliation(AffOf(as[1]))
            /\ papers[k].CorrespondingAuthorEmail = extract_email(AffOf(as[1]))

\* C3: save_to_csv called with no papers fails and leaves the output file
\* as it was before the run.
C3_EmptySaveWritesNothing ==
    failure = "index" => file = file0

\* The identifiers of lst that resolve to a record, in order.
Resolved(lst) == SelectSeq(lst, LAMBDA i : remote[i].found)
PaperIds == [k \in 1..Len(papers) |-> papers[k].PubmedID]

\* C4: the papers' identifiers are the identifiers processed so far with
\* the unresolved ones removed, in the same order; when fetch_details has
\* returned, they are the whole input list with the unresolved ones removed.
C4_OnePaperPerResolvedId ==
    /\ pc \in {"loop", "fetch_wait", "authors"} =>
         PaperIds = Resolved(SubSeq(ids, 1, idx - 1))
    /\ pc \in {"save", "write", "done"} => PaperIds = Resolved(ids)

\* fetch_details has returned for a list with a duplicated identifier that
\* resolves, or with a resolved identifier after an unresolved one.
C4_Witness ==
    /\ pc = "save"
    /\ Len(ids) = 2
    /\ \/ ids[1] = ids[2] /\ remote[ids[1]].found /\ Len(papers) = 2
       \/ ~ remote[ids[1]].found /\ remote[ids[2]].found /\ Len(papers) = 1

\* The file a run that ended well has written.
FullFile == [exists |-> TRUE, header |-> FieldNames, rows |-> papers]

\* C5: a run that fails at the transport level issues no further request
\* and never opens the file, and every run ends with the full file written
\* or with the file untouched.
C5_AllOrNothing ==
    /\ failure \in {"transport", "parse"} =>
         /\ \A i \in 1..Len(events) : events[i].ev \notin {"open", "write"}
         /\ file = file0
    /\ pc = "done" => file = FullFile
    /\ pc = "failed" => file = file0

\* The part of C5 about transport failures alone: the run has stopped, the
\* papers are gone and the file has not been opened.
C5_TransportAbort ==
    failure \in {"transport", "parse"} =>
        /\ pc = "failed"
        /\ papers = <<>>
        /\ \A i \in 1..Len(events) : events[i].ev \notin {"open", "write"}
        /\ file = file0

\* C6: a second run on the same identifier list against the same remote
\* data returns the papers the first run returned.
C6_Deterministic ==
    (run = 2 /\ pc = "save") => papers = prev_papers

\* The keywords as the claim lists them.
ClaimKeywords ==
    { <<"u","n","i","v","e","r","s","i","t","y">>,
      <<"c","o","l","l","e","g","e">>,
      <<"i","n","s","t","i","t","u","t","e">>,
      <<"s","c","h","o","o","l">>,
      <<"h","o","s","p","i","t","a","l">>,
      <<"c","l","i","n","i","c">>,
      <<"c","e","n","t","e","r">>,
      <<"c","e","n","t","r","e">> }

\* Keyword w stands at position i of s, in any letter case.
OccursAt(s, w, i) ==
    \A j \in 1..Len(w) :
        i + j - 1 <= Len(s) /\ LowerChar(s[i + j - 1]) = w[j]

\* C7: is_company_affiliation returns false exactly when a keyword occurs
\* in the string, in any letter case and at any position.
C7_FalseIffKeyword ==
    ret.fn = "is_company_affiliation" =>
        (ret.bool = FALSE
           <=> \E w \in ClaimKeywords : \E i \in 1..Len(arg) : OccursAt(arg, w, i))

\* is_company_affiliation has returned false for a string that holds
\* "University" between other text.
C7_Witness ==
    /\ ret.fn = "is_company_affiliation"
    /\ ret.bool = FALSE
    /\ Len(arg) > 10
    /\ Contains(arg, <<"U","n","i","v","e","r","s","i","t","y">>)

\* The visited authors with a non-empty affiliation classified non-academic.
VisitedCompanyAuthors ==
    SelectSeq(SubSeq(authors, 1, ai - 1),
              LAMBDA a : AffOf(a) # <<>> /\ is_company_affiliation(AffOf(a)))

\* C8: at every point of the author loop the non-academic-author list holds
\* the display names of the visited authors with a non-empty non-academic
\* affiliation, in order, and the company list one entry for each of them.
C8_ListsFollowVisitedAuthors ==
    pc = "authors" =>
        /\ Len(non_academic_authors) = Len(VisitedCompanyAuthors)
        /\ Len(company_affiliations) = Len(non_academic_authors)
        /\ \A k \in 1..Len(VisitedCompanyAuthors) :
             /\ non_academic_authors[k] = FullName(VisitedCompanyAuthors[k])
             /\ company_affiliations[k] =
                  extract_company_name(AffOf(VisitedCompanyAuthors[k]))

\* The loop has visited an author without affiliation and then a company's.
C8_Witness ==
    /\ pc = "authors"
    /\ ai = 3
    /\ AffOf(authors[1]) = <<>>
    /\ Len(non_academic_authors) = 1
    /\ company_affiliations = << extract_company_name(AffOf(authors[2])) >>

\* The requests of a run on identifier list lst, in order.
RECURSIVE FetchEvents(_)
FetchEvents(lst) ==
    IF lst = <<>> THEN <<>>
    ELSE << Ev("fetch_req", Head(lst)), Ev("fetch_ret", Head(lst)) >>
         \o FetchEvents(Tail(lst))
ExpectedEvents(lst) ==
    << Ev("search_req", ""), Ev("search_ret", "") >> \o FetchEvents(lst)
    \o << Ev("open", ""), Ev("write", "") >>
IsPrefix(a, b) == Len(a) <= Len(b) /\ a = SubSeq(b, 1, Len(a))

\* C9: the events of a run are always a prefix of: the search request and
\* its return, then for each identifier in list order its fetch request and
\* its return, then one open and one write of the file; a run that ends
\* well has gone through all of them.
C9_EventsInOrder ==
    /\ IsPrefix(events, ExpectedEvents(idlist))
    /\ pc = "done" => events = ExpectedEvents(idlist)

\* A run on two different identifiers has ended well.
C9_Witness ==
    /\ pc = "done"
    /\ Len(ids) = 2
    /\ ids[1] # ids[2]
    /\ Len(events) = 8

\* C10: each of a paper's two list fields is "None" exactly when no author
\* of its record has a non-empty affiliation classified non-academic.
C10_NoneIffNoCompanyAuthor ==
    \A k \in 1..Len(papers) :
        LET as == RecordOf(papers[k]).authors
            any == \E i \in 1..Len(as) :
                      AffOf(as[i]) # <<>> /\ is_company_affiliation(AffOf(as[i]))
        IN  /\ papers[k].NonAcademicAuthors = NoneStr <=> ~ any
            /\ papers[k].CompanyAffiliations = NoneStr <=> ~ any

====
